---- MODULE Spec2Model ----
(***************************************************************************)
(* Model of bismuthvoting/derivablekey.py: the DerivableKey class          *)
(* (derive, encrypt, decrypt) and its helpers int_to_string,               *)
(* string_to_int and random_padding.                                       *)
(*                                                                         *)
(* Byte strings are sequences of 0..255.  Python integers are unbounded;   *)
(* they are modelled as canonical little-endian base-256 digit sequences   *)
(* (no most-significant zero digit, zero is the empty sequence) so that    *)
(* 256-bit arithmetic keeps its full width.                                *)
(***************************************************************************)
EXTENDS Integers, Sequences, FiniteSets, TLC

VARIABLES keys, hmac, last, sent, recv

vars == <<keys, hmac, last, sent, recv>>

\* --------------------------------------------------------------- bounds
\* Largest number of DerivableKey objects alive in one run (root included).
MaxKeys == 4

\* Largest plaintext length, in characters.
MaxPlainLen == 32

\* ------------------------------------------------------------ constants
BYTE == 256
SCALAR_LEN == 32
BLOCK_SIZE == 16
SPACE == 32
FIELD_ORDER_BITS == 256

\* ---------------------------------------------------------------- bytes
Rep(b, n) == [i \in 1..n |-> b]

Min(a, b) == IF a < b THEN a ELSE b

\* Python s[a:b] for 0 <= a, b (0-based, end exclusive, clamped).
Slice(s, a, b) == SubSeq(s, a + 1, Min(b, Len(s)))

\* Python s[a:].
SliceFrom(s, a) == SubSeq(s, a + 1, Len(s))

RECURSIVE Reverse(_)
Reverse(s) == IF s = <<>> THEN <<>> ELSE Append(Reverse(Tail(s)), Head(s))

\* ------------------------------------------------- unbounded integers
\* A natural number is its little-endian base-256 digits, canonical.
BigZero == <<>>

RECURSIVE BigNorm(_)
BigNorm(a) ==
    IF a = <<>> THEN <<>>
    ELSE IF a[Len(a)] = 0 THEN BigNorm(SubSeq(a, 1, Len(a) - 1))
    ELSE a

RECURSIVE BigAddC(_, _, _)
BigAddC(a, b, carry) ==
    IF a = <<>> /\ b = <<>>
    THEN (IF carry = 0 THEN <<>> ELSE <<carry>>)
    ELSE LET x == IF a = <<>> THEN 0 ELSE Head(a)
             y == IF b = <<>> THEN 0 ELSE Head(b)
             t == x + y + carry
         IN  <<t % BYTE>> \o
             BigAddC(IF a = <<>> THEN <<>> ELSE Tail(a),
                     IF b = <<>> THEN <<>> ELSE Tail(b),
                     t \div BYTE)

\* a + b
BigAdd(a, b) == BigNorm(BigAddC(a, b, 0))

RECURSIVE BigLessSame(_, _, _)
BigLessSame(a, b, i) ==
    IF i = 0 THEN FALSE
    ELSE IF a[i] # b[i] THEN a[i] < b[i]
    ELSE BigLessSame(a, b, i - 1)

\* a < b
BigLess(a, b) ==
    IF Len(a) # Len(b) THEN Len(a) < Len(b) ELSE BigLessSame(a, b, Len(a))

RECURSIVE BigSubB(_, _, _)
BigSubB(a, b, borrow) ==
    IF a = <<>> THEN <<>>
    ELSE LET y == IF b = <<>> THEN 0 ELSE Head(b)
             t == Head(a) - y - borrow
         IN  <<t % BYTE>> \o
             BigSubB(Tail(a), IF b = <<>> THEN <<>> ELSE Tail(b),
                     IF t < 0 THEN 1 ELSE 0)

\* a - b, for a >= b
BigSub(a, b) == BigNorm(BigSubB(a, b, 0))

\* a % m, for m > 0
RECURSIVE BigMod(_, _)
BigMod(a, m) == IF BigLess(a, m) THEN a ELSE BigMod(BigSub(a, m), m)

RECURSIVE Pow2(_)
Pow2(n) == IF n = 0 THEN 1 ELSE 2 * Pow2(n - 1)

\* 2 ** bits
BigPow2(bits) == Rep(0, bits \div 8) \o <<Pow2(bits % 8)>>

\* The big-endian bytes of a number, read as that number.
BigOfBytes(s) == BigNorm(Reverse(s))

\* The order of the secp256k1 group, the bound coincurve's PrivateKey
\* enforces on a secret: 0 < secret < n.
SECP256K1_N == BigOfBytes(
    Rep(255, 15) \o <<254>> \o
    <<186, 174, 220, 230, 175, 72, 160, 59, 191, 210, 94, 140, 208, 54, 65, 65>>)

\* Mutant of FIELD_ORDER: the addition reduced by the curve order.
FIELD_ORDER_curve == SECP256K1_N

\* FIELD_ORDER = 2 ** 256
FIELD_ORDER == BigPow2(FIELD_ORDER_BITS)

\* ------------------------------------------------- module-level helpers
\* int_to_string: big-endian bytes without leading zero bytes; b"\0" for 0.
RECURSIVE int_to_string_loop(_, _)
int_to_string_loop(x, result) ==
    IF x = BigZero THEN result
    ELSE int_to_string_loop(Tail(x), Append(result, Head(x)))

int_to_string(x) ==
    IF x = BigZero THEN <<0>>
    ELSE Reverse(int_to_string_loop(x, <<>>))

\* string_to_int: result = 256 * result + c over the bytes, left to right.
BigMulAdd(result, c) ==
    IF result = BigZero /\ c = 0 THEN BigZero ELSE <<c>> \o result

RECURSIVE string_to_int_loop(_, _)
string_to_int_loop(s, result) ==
    IF s = <<>> THEN result
    ELSE string_to_int_loop(Tail(s), BigMulAdd(result, Head(s)))

string_to_int(s) == string_to_int_loop(s, BigZero)

\* ------------------------------------------------------- DerivableKey
\* Seeds a caller may construct a root key from (DerivableKey(seed=...)):
\* the test suite's seed, a seed whose scalar is 1, and a seed whose scalar
\* is 0 (accepted by the constructor, refused by to_pubkey).
TEST_SEED ==
    <<149, 167, 236, 181, 107, 218, 94, 186, 128, 142, 236, 36, 7, 180, 24, 0,
      43, 130, 76, 108, 28, 177, 89, 236, 68, 184, 55, 20, 5, 98, 159, 132,
      41, 65, 158, 152, 225, 182, 127, 198, 54, 115, 104, 245, 216, 40, 113, 165,
      1, 187, 198, 85, 166, 45, 49, 232, 57, 20, 17, 215, 166, 231, 75, 134>>

RootSeeds ==
    { TEST_SEED,
      Rep(0, 31) \o <<1>> \o Rep(170, 32),
      Rep(0, 32) \o Rep(187, 32) }

\* Context strings passed to derive.
Contexts == {"Bis_test_address1", "motion_1_txid"}

\* __init__ with seed given: the object holds the seed as passed.  parent
\* and ctx record which derive call built the object (0 and "" for a root).
NewKey(seed, parent, ctx) == [seed |-> seed, parent |-> parent, ctx |-> ctx]

\* PrivateKey.from_hex(seed[:32].hex()): the secret, left-padded to 32
\* bytes, must satisfy 0 < secret < n.
secret_of(seed) ==
    LET b == Slice(seed, 0, SCALAR_LEN)
    IN  Rep(0, SCALAR_LEN - Len(b)) \o b

valid_secret(seed) ==
    LET x == string_to_int(secret_of(seed))
    IN  x # BigZero /\ BigLess(x, SECP256K1_N)

\* to_pubkey: the uncompressed point of the secret.  The point itself is
\* computed outside this repository; it is a one-to-one function of the secret.
to_pubkey(seed) == [point_of |-> secret_of(seed)]

\* data = self.to_pubkey().hex() + s: a fixed-width hex text followed by s,
\* which determines both parts.
derive_data(seed, s) == [pubhex |-> to_pubkey(seed), s |-> s]

\* Outputs HMAC-SHA512 may give for an input: 64 bytes.  The function itself
\* is outside this repository; the left halves cover a sum that wraps, a sum
\* with leading zero bytes, and a full-width sum.
HmacValues ==
    { Rep(255, 32) \o Rep(17, 32),
      (Rep(0, 31) \o <<5>>) \o (Rep(32, 31) \o <<34>>),
      (<<0, 1>> \o Rep(0, 30)) \o Rep(17, 32),
      (<<128>> \o Rep(0, 31)) \o (Rep(32, 31) \o <<34>>) }

\* hmac.new(key, data, sha512).digest(): a function of (key, data), so an
\* input seen before gives the digest it gave then.
HmacSeen(key, data) == { h \in hmac : h.key = key /\ h.data = data }

HmacDigests(key, data) ==
    IF HmacSeen(key, data) # {}
    THEN { h.out : h \in HmacSeen(key, data) }
    ELSE HmacValues

\* derive, lines 83-89: the child seed from the digest I.
derive_ks_int(seed, I) ==
    BigMod(BigAdd(string_to_int(Slice(I, 0, SCALAR_LEN)),
                  string_to_int(Slice(seed, 0, SCALAR_LEN))),
           FIELD_ORDER)

derive_seed(seed, I) ==
    LET IL == Slice(I, 0, SCALAR_LEN)
        IR == SliceFrom(I, SCALAR_LEN)
        ks_int == derive_ks_int(seed, I)
        ks == int_to_string(ks_int)
        cs == IR
    IN  ks \o cs

NoCall == [op |-> "none"]

\* Mutant of Derive: the result is stored into the key derive is called on.
DeriveInPlace(i, s) ==
    LET self == keys[i].seed
        key == SliceFrom(self, SCALAR_LEN)
        data == derive_data(self, s)
    IN  /\ Len(keys) < MaxKeys
        /\ valid_secret(self)
        /\ \E I \in HmacDigests(key, data) :
              LET child == derive_seed(self, I)
              IN  /\ hmac' = hmac \cup {[key |-> key, data |-> data, out |-> I]}
                  /\ keys' = Append([keys EXCEPT ![i].seed = child],
                                    NewKey(child, i, s))
                  /\ last' = [op |-> "derive", self |-> self, s |-> s,
                              I |-> I, ret |-> "key", child |-> Len(keys) + 1]
        /\ UNCHANGED <<sent, recv>>

\* key.derive(s) on the i-th key object: returns a new DerivableKey.
Derive(i, s) ==
    LET self == keys[i].seed
        key == SliceFrom(self, SCALAR_LEN)
        data == derive_data(self, s)
    IN  /\ Len(keys) < MaxKeys
        /\ valid_secret(self)
        /\ \E I \in HmacDigests(key, data) :
              LET child == derive_seed(self, I)
              IN  /\ hmac' = hmac \cup {[key |-> key, data |-> data, out |-> I]}
                  /\ keys' = Append(keys, NewKey(child, i, s))
                  /\ last' = [op |-> "derive", self |-> self, s |-> s,
                              I |-> I, ret |-> "key", child |-> Len(keys) + 1]
        /\ UNCHANGED <<sent, recv>>

\* key.derive(s) when to_pubkey raises: no key is returned, nothing changes.
DeriveRaises(i, s) ==
    LET self == keys[i].seed
    IN  /\ ~valid_secret(self)
        /\ last' = [op |-> "derive", self |-> self, s |-> s,
                    I |-> <<>>, ret |-> "ValueError", child |-> 0]
        /\ UNCHANGED <<keys, hmac, sent, recv>>

InitKeys ==
    /\ \E seed \in RootSeeds : keys = <<NewKey(seed, 0, "")>>
    /\ hmac = {}
    /\ last = NoCall

InitCodec ==
    /\ sent = NoCall
    /\ recv = NoCall

Init == InitKeys /\ InitCodec

NextKeys ==
    \/ \E i \in 1..Len(keys), s \in Contexts : Derive(i, s)
    \/ \E i \in 1..Len(keys), s \in Contexts : DeriveRaises(i, s)

\* Key derivation alone.
SpecKeys == Init /\ [][NextKeys]_vars

\* ------------------------------------------------------ text and bytes
\* A str is a sequence of code points.  str.encode('utf-8').
utf8_char(cp) ==
    IF cp < 128 THEN <<cp>>
    ELSE IF cp < 2048 THEN <<192 + (cp \div 64), 128 + (cp % 64)>>
    ELSE IF cp < 65536
    THEN <<224 + (cp \div 4096), 128 + ((cp \div 64) % 64), 128 + (cp % 64)>>
    ELSE <<240 + (cp \div 262144), 128 + ((cp \div 4096) % 64),
           128 + ((cp \div 64) % 64), 128 + (cp % 64)>>

RECURSIVE utf8_encode(_)
utf8_encode(s) ==
    IF s = <<>> THEN <<>> ELSE utf8_char(Head(s)) \o utf8_encode(Tail(s))

\* bytes.decode('utf-8'), strict: ok is FALSE where Python raises
\* UnicodeDecodeError.
IsCont(b) == b >= 128 /\ b < 192

Utf8Bad == [ok |-> FALSE, s |-> <<>>]

RECURSIVE utf8_decode_from(_, _)
utf8_decode_from(bs, acc) ==
    IF bs = <<>> THEN [ok |-> TRUE, s |-> acc]
    ELSE LET b0 == bs[1]
             n == Len(bs)
         IN  IF b0 < 128
             THEN utf8_decode_from(Tail(bs), Append(acc, b0))
             ELSE IF b0 >= 194 /\ b0 < 224
             THEN IF n >= 2 /\ IsCont(bs[2])
                  THEN utf8_decode_from(SubSeq(bs, 3, n),
                           Append(acc, (b0 - 192) * 64 + (bs[2] - 128)))
                  ELSE Utf8Bad
             ELSE IF b0 >= 224 /\ b0 < 240
             THEN IF n >= 3 /\ IsCont(bs[2]) /\ IsCont(bs[3])
                  THEN LET cp == (b0 - 224) * 4096 + (bs[2] - 128) * 64
                                 + (bs[3] - 128)
                       IN  IF cp < 2048 \/ (cp >= 55296 /\ cp < 57344)
                           THEN Utf8Bad
                           ELSE utf8_decode_from(SubSeq(bs, 4, n),
                                                 Append(acc, cp))
                  ELSE Utf8Bad
             ELSE IF b0 >= 240 /\ b0 < 245
             THEN IF n >= 4 /\ IsCont(bs[2]) /\ IsCont(bs[3]) /\ IsCont(bs[4])
                  THEN LET cp == (b0 - 240) * 262144 + (bs[2] - 128) * 4096
                                 + (bs[3] - 128) * 64 + (bs[4] - 128)
                       IN  IF cp < 65536 \/ cp > 1114111
                           THEN Utf8Bad
                           ELSE utf8_decode_from(SubSeq(bs, 5, n),
                                                 Append(acc, cp))
                  ELSE Utf8Bad
             ELSE Utf8Bad

utf8_decode(bs) == utf8_decode_from(bs, <<>>)

\* bytes.split(sep) for a one-byte sep: the list of the segments between
\* the occurrences of sep (one more segment than occurrences).
RECURSIVE split_from(_, _, _)
split_from(bs, sep, cur) ==
    IF bs = <<>> THEN <<cur>>
    ELSE IF Head(bs) = sep THEN <<cur>> \o split_from(Tail(bs), sep, <<>>)
    ELSE split_from(Tail(bs), sep, Append(cur, Head(bs)))

split(bs, sep) == split_from(bs, sep, <<>>)

\* ------------------------------------------------------ AES in CBC mode
\* The AES block transformation is outside this repository.  It is a keyed
\* permutation of 16-byte blocks; this keyed permutation stands in for it.
RECURSIVE Xor(_, _)
Xor(a, b) ==
    IF a = 0 THEN b
    ELSE IF b = 0 THEN a
    ELSE ((a + b) % 2) + 2 * Xor(a \div 2, b \div 2)

XorBlock(x, y) == [i \in 1..BLOCK_SIZE |-> Xor(x[i], y[i])]

block_encrypt(k, b) ==
    [i \in 1..BLOCK_SIZE |->
        (b[(i % BLOCK_SIZE) + 1] + k[i] + 7 * k[i + BLOCK_SIZE]) % BYTE]

block_decrypt(k, c) ==
    [j \in 1..BLOCK_SIZE |->
        LET i == ((j + BLOCK_SIZE - 2) % BLOCK_SIZE) + 1
        IN  (c[i] - k[i] - 7 * k[i + BLOCK_SIZE]) % BYTE]

\* AES.new(key, AES.MODE_CBC, iv=iv).encrypt(data), len(data) % 16 = 0.
RECURSIVE aes_cbc_encrypt(_, _, _)
aes_cbc_encrypt(k, iv, data) ==
    IF data = <<>> THEN <<>>
    ELSE LET c == block_encrypt(k, XorBlock(SubSeq(data, 1, BLOCK_SIZE), iv))
         IN  c \o aes_cbc_encrypt(k, c, SubSeq(data, BLOCK_SIZE + 1, Len(data)))

\* AES.new(key, AES.MODE_CBC, iv=iv).decrypt(data), len(data) % 16 = 0.
RECURSIVE aes_cbc_decrypt(_, _, _)
aes_cbc_decrypt(k, iv, data) ==
    IF data = <<>> THEN <<>>
    ELSE LET c == SubSeq(data, 1, BLOCK_SIZE)
         IN  XorBlock(block_decrypt(k, c), iv) \o
             aes_cbc_decrypt(k, c, SubSeq(data, BLOCK_SIZE + 1, Len(data)))

\* -------------------------------------------------- encrypt and decrypt
\* An optional argument: <<>> is None, <<x>> is the value x.
None == <<>>
Some(x) == <<x>>

\* "Bismuth BGVP IV.".encode('utf-8')
DEFAULT_IV ==
    utf8_encode(<<66, 105, 115, 109, 117, 116, 104, 32,
                  66, 71, 86, 80, 32, 73, 86, 46>>)

iv_or_default(iv) == IF iv = None THEN DEFAULT_IV ELSE iv[1]

\* Mutant of padding_len: pad only when the data is not block-aligned.
padding_len_if_needed(data, block_size) ==
    (block_size - (Len(data) % block_size)) % block_size

\* random_padding, line 49.
padding_len(data, block_size) == block_size - (Len(data) % block_size)

\* Mutant of random_padding: the fixed filler is the space byte.
random_padding_spaces(data, block_size, pad_with_zeros, rnd) ==
    LET padding == IF pad_with_zeros
                   THEN Rep(SPACE, padding_len(data, block_size))
                   ELSE rnd
    IN  data \o padding

\* random_padding; rnd is what get_random_bytes(padding_len) returns.
random_padding(data, block_size, pad_with_zeros, rnd) ==
    LET padding == IF pad_with_zeros
                   THEN Rep(0, padding_len(data, block_size))
                   ELSE rnd
    IN  data \o padding

\* Mutant of add_space: the delimiter is left out.
add_space_omitted(data) == data

\* data += " "
add_space(data) == Append(data, SPACE)

\* encrypt, lines 95-98: the padded bytes handed to AES.
encrypt_padded(data, pad_with_zeroes, rnd) ==
    random_padding(utf8_encode(add_space(data)), BLOCK_SIZE,
                   pad_with_zeroes, rnd)

\* Mutant of decrypt_result: the segment before the first space is kept
\* however many segments there are.
decrypt_result_first(clear) ==
    LET parts == split(clear, SPACE)
        d == utf8_decode(parts[1])
    IN  IF d.ok THEN [ret |-> "str", value |-> d.s]
        ELSE [ret |-> "UnicodeDecodeError", value |-> <<>>]

\* decrypt, lines 118-119: clear, _ = clear.split(b" ") unpacks exactly two
\* segments; then clear.decode("utf-8").
decrypt_result(clear) ==
    LET parts == split(clear, SPACE)
    IN  IF Len(parts) # 2 THEN [ret |-> "ValueError", value |-> <<>>]
        ELSE LET d == utf8_decode(parts[1])
             IN  IF d.ok THEN [ret |-> "str", value |-> d.s]
                 ELSE [ret |-> "UnicodeDecodeError", value |-> <<>>]

\* ------------------------------------------------------- codec inputs
\* A sequence of n copies of fill with sp at position pos.
Pattern(n, fill, sp, pos) == [i \in 1..n |-> IF i = pos THEN sp ELSE fill]

\* Plaintexts: "a" and U+00E9 runs of every length up to MaxPlainLen, plain
\* or with a space or U+20AC as first or last character.
Plaintexts ==
    { Pattern(n, fill, sp, pos) :
        n \in 0..MaxPlainLen, fill \in {97, 233}, sp \in {97, 32, 8364},
        pos \in {1, MaxPlainLen + 1} }
    \cup { Pattern(n, 97, sp, n) : n \in 1..MaxPlainLen, sp \in {32, 8364} }

\* What get_random_bytes(n) may return: every byte value is possible; the
\* runs tried are runs of one byte with a 0x00 or 0x20 first or last.
get_random_bytes(n) ==
    { Pattern(n, fill, sp, pos) :
        fill \in {7, 255}, sp \in {0, SPACE}, pos \in {0, 1, n} }

\* 32-byte keys: the AES key the test suite expects of its root key, and
\* another.
TEST_AES_KEY ==
    <<4, 24, 185, 144, 141, 67, 245, 3, 174, 142, 211, 18, 140, 53, 237, 216,
      224, 185, 53, 12, 1, 163, 137, 191, 93, 131, 174, 206, 72, 34, 114, 43>>

AesKeys == { TEST_AES_KEY, [i \in 1..32 |-> (7 * i + 3) % BYTE] }

BadKeys == { Rep(9, BLOCK_SIZE) }

IVs == { None, Some(Rep(0, BLOCK_SIZE)) }

\* Decrypted texts of ciphertexts that did not come from encrypt: without a
\* space, with one, with several, and with bytes that are not UTF-8.
ForeignClears ==
    { <<>>,
      Rep(97, 16),
      Rep(255, 32),
      Pattern(16, 0, SPACE, 1),
      Pattern(16, 255, SPACE, 3),
      Pattern(16, 98, SPACE, 16),
      <<118, 111, 116, 101, SPACE, 97, SPACE>> \o Rep(0, 9),
      <<195, 169, SPACE, SPACE>> \o Rep(7, 28) }

\* DerivableKey.encrypt(aes_key, data, pad_with_zeroes, iv)
Encrypt(aes_key, data, pad_with_zeroes, iv) ==
    /\ sent = NoCall /\ recv = NoCall
    /\ IF Len(aes_key) # 32
       THEN sent' = [op |-> "encrypt", aes_key |-> aes_key, data |-> data,
                     pad_with_zeroes |-> pad_with_zeroes, iv |-> iv,
                     padded |-> <<>>, ret |-> "AssertionError", out |-> <<>>]
       ELSE \E rnd \in (IF pad_with_zeroes THEN {<<>>}
                        ELSE get_random_bytes(
                                 padding_len(utf8_encode(add_space(data)),
                                             BLOCK_SIZE))) :
              LET padded == encrypt_padded(data, pad_with_zeroes, rnd)
                  encrypted == aes_cbc_encrypt(aes_key, iv_or_default(iv), padded)
              IN  sent' = [op |-> "encrypt", aes_key |-> aes_key, data |-> data,
                           pad_with_zeroes |-> pad_with_zeroes, iv |-> iv,
                           padded |-> padded, ret |-> "bytes", out |-> encrypted]
    /\ UNCHANGED <<keys, hmac, last, recv>>

\* DerivableKey.decrypt(aes_key, data, iv), for data of whole blocks.
Decrypt(aes_key, data, iv) ==
    /\ recv = NoCall
    /\ IF Len(aes_key) # 32
       THEN recv' = [op |-> "decrypt", aes_key |-> aes_key, data |-> data,
                     iv |-> iv, clear |-> <<>>, ret |-> "AssertionError",
                     value |-> <<>>]
       ELSE LET clear == aes_cbc_decrypt(aes_key, iv_or_default(iv), data)
                r == decrypt_result(clear)
            IN  recv' = [op |-> "decrypt", aes_key |-> aes_key, data |-> data,
                         iv |-> iv, clear |-> clear, ret |-> r.ret,
                         value |-> r.value]
    /\ UNCHANGED <<keys, hmac, last, sent>>

\* Ciphertexts that did not come from this run's encrypt call: any
\* block-aligned byte string is the encryption of some clear text under some
\* key and IV.
ForeignCiphertexts ==
    { aes_cbc_encrypt(k, iv_or_default(iv), c) :
        k \in AesKeys, iv \in IVs, c \in ForeignClears }

\* The ciphertexts a caller may hand to decrypt: the one encrypt returned,
\* or, when encrypt was not called, one from elsewhere.
Ciphertexts ==
    IF sent.op = "encrypt"
    THEN (IF sent.ret = "bytes" THEN {sent.out} ELSE {})
    ELSE ForeignCiphertexts

NextCodec ==
    \/ \E aes_key \in AesKeys, data \in Plaintexts, z \in BOOLEAN, iv \in IVs :
          Encrypt(aes_key, data, z, iv)
    \/ \E aes_key \in BadKeys : Encrypt(aes_key, <<97>>, FALSE, None)
    \/ \E aes_key \in AesKeys \cup BadKeys, iv \in IVs :
          \E data \in Ciphertexts : Decrypt(aes_key, data, iv)

\* Encryption and decryption alone.  Both are class methods: no key object
\* is needed, and they keep no state between calls, so a run is one encrypt
\* call followed by one decrypt call, or one decrypt call on a ciphertext
\* from elsewhere.
InitCodecOnly ==
    /\ keys = <<>>
    /\ hmac = {}
    /\ last = NoCall
    /\ InitCodec

SpecCodec == InitCodecOnly /\ [][NextCodec]_vars

\* ------------------------------------------------- claims: derivation
SEED_LEN == 2 * SCALAR_LEN

Two256 == BigPow2(8 * SCALAR_LEN)

\* The integers derive adds, read off the last call's inputs.
LastIL == string_to_int(Slice(last.I, 0, SCALAR_LEN))
LastKpar == string_to_int(Slice(last.self, 0, SCALAR_LEN))
LastReturned == last.op = "derive" /\ last.ret = "key"
LastChild == keys[last.child].seed

\* C3 (as claimed): every key reachable from a 64-byte root seed by derive
\* calls holds a seed of exactly 64 bytes.
C3_SeedLength ==
    \A i \in 1..Len(keys) : Len(keys[i].seed) = SEED_LEN

\* C5 (as claimed): when (IL + parent scalar) mod 2^256 is 0, derive fails
\* and returns no child key.
C5_ZeroScalarRefused ==
    (last.op = "derive" /\ last.I # <<>>
        /\ BigAdd(LastIL, LastKpar) \in {BigZero, Two256})
    => (last.ret # "key" /\ last.child = 0)

\* C8: derive with the same context on keys holding the same seed (the same
\* key object included) returns the same child seed every time, whatever
\* derive calls happen in between, and no derive call changes the seed of a
\* key that exists.
C8_Deterministic ==
    \A i, j \in 1..Len(keys) :
        (keys[i].parent # 0 /\ keys[j].parent # 0
            /\ keys[keys[i].parent].seed = keys[keys[j].parent].seed
            /\ keys[i].ctx = keys[j].ctx)
        => keys[i].seed = keys[j].seed

C8_SeedsKept ==
    \A i \in 1..Len(keys) : keys'[i].seed = keys[i].seed

\* C8: both parts, over every run: the same derivation gives the same child
\* seed, and derive leaves the seeds of the existing keys as they were.
C8_DeriveDeterminism == [](C8_Deterministic) /\ [][C8_SeedsKept]_vars

\* C8 witness: the same derivation done twice with another derive call
\* between the two.
C8_Witness ==
    \E i, j, m \in 1..Len(keys) :
        /\ i < m /\ m < j
        /\ keys[i].parent # 0
        /\ keys[i].parent = keys[j].parent /\ keys[i].ctx = keys[j].ctx
        /\ keys[m].ctx # keys[i].ctx
        /\ keys[j].seed = keys[i].seed

\* C10: the child's scalar (the child seed without its last 32 bytes) read
\* big-endian is (IL + parent scalar) mod 2^256, the child's last 32 bytes
\* are IR, and I is the digest of (parent seed[32:], hex pubkey + context).
C10_ChildComputation ==
    LastReturned =>
        LET child == LastChild
            n == Len(child) - SCALAR_LEN
            x == string_to_int(Slice(child, 0, n))
            sum == BigAdd(LastIL, LastKpar)
        IN  /\ [key |-> SliceFrom(last.self, SCALAR_LEN),
                data |-> derive_data(last.self, last.s),
                out |-> last.I] \in hmac
            /\ Len(last.I) = SEED_LEN
            /\ n >= 1
            /\ SliceFrom(child, n) = SliceFrom(last.I, SCALAR_LEN)
            /\ BigLess(x, Two256)
            /\ (sum = x \/ sum = BigAdd(x, Two256))

\* C10 witness: a 64-byte parent whose sum with IL overflows 2^256 and
\* wraps to a nonzero scalar at or above the curve order's complement.
C10_Witness ==
    /\ LastReturned
    /\ Len(last.self) = SEED_LEN
    /\ ~BigLess(BigAdd(LastIL, LastKpar), Two256)
    /\ string_to_int(Slice(LastChild, 0, SCALAR_LEN)) # BigZero
    /\ Len(LastChild) = SEED_LEN

\* ------------------------------------------------------ claims: codec
SentOk == sent.op = "encrypt" /\ sent.ret = "bytes"
RecvDone == recv.op = "decrypt" /\ Len(recv.aes_key) = 32

\* decrypt was given what encrypt returned, with encrypt's key and IV.
RoundTrip ==
    /\ SentOk /\ RecvDone
    /\ recv.aes_key = sent.aes_key /\ recv.iv = sent.iv
    /\ recv.data = sent.out

HasByte(bs, b) == \E i \in 1..Len(bs) : bs[i] = b

\* The bytes before the first occurrence of b.
RECURSIVE Before(_, _)
Before(bs, b) ==
    IF bs = <<>> \/ Head(bs) = b THEN <<>>
    ELSE <<Head(bs)>> \o Before(Tail(bs), b)

SentUtf8Len == Len(utf8_encode(sent.data))

\* The number of bytes encrypt put after the delimiter.
SentPaddingCount == Len(sent.padded) - (SentUtf8Len + 1)

\* The bytes the cipher produced, read back with the key and IV of the call.
SentClear ==
    aes_cbc_decrypt(sent.aes_key, iv_or_default(sent.iv), sent.out)

\* C1: with zero padding, decrypt(k, encrypt(k, p)) returns p for every
\* plaintext p without a space character.
C1_RoundTripZeros ==
    (RoundTrip /\ sent.pad_with_zeroes /\ ~HasByte(sent.data, SPACE))
    => (recv.ret = "str" /\ recv.value = sent.data)

\* C1 witness: a round trip of a two-block plaintext holding a character
\* that is not ASCII.
C1_Witness ==
    /\ RoundTrip /\ sent.pad_with_zeroes /\ ~HasByte(sent.data, SPACE)
    /\ Len(sent.data) > BLOCK_SIZE /\ HasByte(sent.data, 8364)
    /\ recv.ret = "str"

\* C2 (as claimed): with random padding, decrypt(k, encrypt(k, p)) returns p
\* for every plaintext p without a space character, whatever bytes are drawn.
C2_RoundTripRandom ==
    (RoundTrip /\ ~sent.pad_with_zeroes /\ ~HasByte(sent.data, SPACE))
    => (recv.ret = "str" /\ recv.value = sent.data)

\* C4 (as claimed): the ciphertext is ceil((len(utf8(p)) + 1) / 16) * 16
\* bytes long.
C4_LengthCeil ==
    SentOk =>
        Len(sent.out) =
            ((SentUtf8Len + 1 + BLOCK_SIZE - 1) \div BLOCK_SIZE) * BLOCK_SIZE

\* C4 (amended): the ciphertext is (floor((len(utf8(p)) + 1) / 16) + 1) * 16
\* bytes long, in both padding modes.
C4_LengthFloorPlusOne ==
    SentOk =>
        Len(sent.out) = (((SentUtf8Len + 1) \div BLOCK_SIZE) + 1) * BLOCK_SIZE

\* C4 witness: a plaintext of 31 bytes encrypted with random padding.
C4_Witness ==
    SentOk /\ ~sent.pad_with_zeroes /\ SentUtf8Len = 31
    /\ Len(sent.out) = 48

\* C6: when the decrypted bytes hold no space byte, decrypt raises and
\* returns no string.
C6_NoDelimiterRaises ==
    (RecvDone /\ ~HasByte(recv.clear, SPACE))
    => (recv.ret = "ValueError" /\ recv.value = <<>>)

\* C6 witness: a decrypted block of sixteen "a" with no space.
C6_Witness ==
    /\ RecvDone /\ recv.clear = Rep(97, 16)
    /\ recv.clear = aes_cbc_decrypt(recv.aes_key, iv_or_default(recv.iv),
                                    recv.data)
    /\ recv.ret = "ValueError"

\* C7 (as claimed): when the decrypted bytes hold one or more space bytes,
\* decrypt returns the UTF-8 decoding of the bytes before the first one.
C7_FirstSegment ==
    (RecvDone /\ HasByte(recv.clear, SPACE)
        /\ utf8_decode(Before(recv.clear, SPACE)).ok)
    => (recv.ret = "str"
        /\ recv.value = utf8_decode(Before(recv.clear, SPACE)).s)

\* C9 (as claimed): a plaintext whose UTF-8 length is a multiple of 16 gets
\* 16 padding bytes.
C9_AlignedGetsSixteen ==
    (SentOk /\ SentUtf8Len % BLOCK_SIZE = 0)
    => SentPaddingCount = BLOCK_SIZE

\* C9 (amended): the padding is 1 to 16 bytes long and follows the plaintext
\* and its delimiter; a plaintext whose UTF-8 length is a multiple of 16 gets
\* 15 padding bytes; the padding is a full 16 bytes when the UTF-8 length
\* plus one is a multiple of 16; with pad_with_zeroes it is all zero bytes.
C9_PaddingRun ==
    SentOk =>
        /\ SentClear = sent.padded
        /\ SubSeq(sent.padded, 1, SentUtf8Len + 1)
               = utf8_encode(sent.data) \o <<SPACE>>
        /\ SentPaddingCount \in 1..BLOCK_SIZE
        /\ (SentUtf8Len % BLOCK_SIZE = 0
               => SentPaddingCount = BLOCK_SIZE - 1)
        /\ ((SentUtf8Len + 1) % BLOCK_SIZE = 0
               => SentPaddingCount = BLOCK_SIZE)
        /\ (sent.pad_with_zeroes
               => \A i \in (SentUtf8Len + 2)..Len(sent.padded) :
                      sent.padded[i] = 0)

\* C9 witness: a 32-byte plaintext encrypted with random padding.
C9_Witness ==
    /\ SentOk /\ ~sent.pad_with_zeroes
    /\ SentUtf8Len = 2 * BLOCK_SIZE
    /\ SentPaddingCount = BLOCK_SIZE - 1

====
